---- MODULE Spec2Model ----
(***************************************************************************)
(* Spaced-repetition scheduler (src/lib/srs.ts), its persistence step      *)
(* (src/lib/services/study-service.ts) and the study-session controller    *)
(* (useStudySession in src/hooks/mentor/useMentorChatState.ts).            *)
(*                                                                         *)
(* Numbers.  The easiness factor is kept in hundredths (2.5 is 250, 1.3 is *)
(* 130), so that the SM-2 update is exact integer arithmetic.  Time is     *)
(* kept in hours: hour 0 of the clock is a local midnight, and a local    *)
(* day is DayLen hours long except the day on which daylight saving time   *)
(* ends, which is one hour longer.                                         *)
(***************************************************************************)
EXTENDS Integers, Sequences, FiniteSets, TLC

VARIABLES
    now,        \* Date.now(), in hours
    srsPrev,    \* scheduler harness: the scheduling state fed to the next call
    srsCalls,   \* scheduler harness: the calls made so far, oldest first
    progress,   \* db.progress: termId -> Progress record, or Null
    settings,   \* db.settings row 1, or Null
    terms,      \* db.terms: the ids of the stored terms
    mentorChatSessions,
                \* db.mentorChatSessions: session id -> session row
    mode, sessionType, queue, currentItem, aiQuiz, evaluation, errorMsg, xpReward,
                \* the useState cells of useStudySession
    tasks,      \* the async invocations in flight, oldest first
    trace       \* observations of the run (not program state)

srsVars == <<srsPrev, srsCalls>>
dbVars == <<progress, settings, terms, mentorChatSessions>>
hookVars == <<mode, sessionType, queue, currentItem, aiQuiz, evaluation, errorMsg, xpReward>>
vars == <<now, srsPrev, srsCalls, progress, settings, terms, mentorChatSessions, mode, sessionType, queue,
          currentItem, aiQuiz, evaluation, errorMsg, xpReward, tasks, trace>>

----------------------------------------------------------------------------
(* Bounds of the model *)

MaxChain == 3
MaxTerms == 2
MaxTicks == 1
MaxFaults == 1
MaxSessions == 1
MaxSaves == 2
MaxDbTicks == 2
MaxLimit == 2
MaxResets == 1
MaxQuizzes == 2

\* JavaScript null and undefined
Null == [null |-> TRUE]

(* Program constants *)

DayLen == 24
ReviewHour == 4
DefaultEFactor == 250
MinEFactor == 130

----------------------------------------------------------------------------
(* src/lib/srs.ts *)

\* `Number(x) || d`: 0 (like NaN) is falsy and replaced by the default.
NumberOr(x, d) == IF x = 0 THEN d ELSE x

\* Math.round of a value given in hundredths: the nearest integer, halves up.
MathRound_floor(hundredths) == hundredths \div 100

MathRound(hundredths) == (hundredths + 50) \div 100

\* 0.1 - (5 - grade) * (0.08 + (5 - grade) * 0.02), in hundredths
EFactorDelta_flat(grade) == 10 - (5 - grade) * 8 + (5 - grade) * 2

EFactorDelta(grade) == 10 - (5 - grade) * (8 + (5 - grade) * 2)

\* The local calendar that Date uses.  The clocks go back one hour at 02:00
\* of day FallBackDay: that day lasts DayLen + 1 hours and its hour from
\* 01:00 to 02:00 comes twice.
FallBackDay == 11

\* the instant of local midnight at the start of day d
DayStart(d) == d * DayLen + (IF d > FallBackDay THEN 1 ELSE 0)

\* the local day an instant lies on
LocalDay(t) ==
    IF t < DayStart(FallBackDay + 1)
    THEN (IF t \div DayLen > FallBackDay THEN FallBackDay ELSE t \div DayLen)
    ELSE (t - 1) \div DayLen

\* nextDate.setHours(4, 0, 0, 0): same local day, the instant the local
\* clock shows h:00:00.000
SetHours_keep(t, h) == t

SetHours(t, h) ==
    LET d == LocalDay(t)
    IN  DayStart(d) + h + (IF d = FallBackDay /\ h >= 2 THEN 1 ELSE 0)

\* lines 89-101: the interval of a successful review (grade >= 3)
SuccessInterval_v1(grade, repetition, efactor, interval) ==
    IF repetition = 0 THEN 1
    ELSE IF repetition = 1 THEN 6
    ELSE MathRound(interval * efactor)

SuccessInterval_tier(grade, repetition, efactor, interval) ==
    IF repetition = 0
    THEN (IF grade = 5 THEN 4 ELSE IF grade = 4 THEN 2 ELSE 1)
    ELSE (IF grade = 5 THEN 10 ELSE IF grade = 4 THEN 6 ELSE 4)

SuccessInterval(grade, repetition, efactor, interval) ==
    IF repetition = 0
    THEN (IF grade = 5 THEN 4 ELSE IF grade = 4 THEN 2 ELSE 1)
    ELSE IF repetition = 1
    THEN (IF grade = 5 THEN 10 ELSE IF grade = 4 THEN 6 ELSE 4)
    ELSE MathRound(interval * efactor)

\* lines 88, 102-104: the repetition count after the review
NextRepetition_keep(grade, repetition) ==
    IF grade >= 3 THEN repetition + 1 ELSE repetition

NextRepetition(grade, repetition) ==
    IF grade >= 3 THEN repetition + 1 ELSE 0

\* line 108: if (interval < 1) interval = 1
ClampInterval_none(interval) == interval

ClampInterval(interval) == IF interval < 1 THEN 1 ELSE interval

\* line 111: if (efactor < 1.3) efactor = 1.3
ClampEFactor_none(efactor) == efactor

ClampEFactor(efactor) == IF efactor < MinEFactor THEN MinEFactor ELSE efactor

\* lines 113-115: now + interval days, moved to 04:00 of that local day
NextReviewDate(t, interval) == SetHours(t + interval * DayLen, ReviewHour)

calculateNextReview(t, grade, previousRepetition, previousEFactor, previousInterval) ==
    LET repetition0 == NumberOr(previousRepetition, 0)
        efactor0    == NumberOr(previousEFactor, DefaultEFactor)
        interval0   == NumberOr(previousInterval, 0)
        interval1   == IF grade >= 3
                       THEN SuccessInterval(grade, repetition0, efactor0, interval0)
                       ELSE 1
        interval2   == ClampInterval(interval1)
    IN  [interval   |-> interval2,
         repetition |-> NextRepetition(grade, repetition0),
         efactor    |-> ClampEFactor(efactor0 + EFactorDelta(grade)),
         nextReview |-> NextReviewDate(t, interval2)]

----------------------------------------------------------------------------
(* src/lib/services/study-service.ts *)

TermIds == 1..MaxTerms

\* the stored progress records, as db.progress.toArray()
ProgressRows == {progress[k] : k \in {u \in DOMAIN progress : progress[u] # Null}}

\* sortBy('nextReview'): ascending nextReview, equal keys by primary key
RECURSIVE SortByNextReview(_)
SortByNextReview(rows) ==
    IF rows = {} THEN <<>>
    ELSE LET first == CHOOSE p \in rows : \A q \in rows :
                          \/ p.nextReview < q.nextReview
                          \/ (p.nextReview = q.nextReview /\ p.termId <= q.termId)
         IN  <<first>> \o SortByNextReview(rows \ {first})

\* lines 10-16: the loop over dueProgress; the limit is tested after the push
RECURSIVE CollectDue(_, _, _)
CollectDue(dueProgress, items, limit) ==
    IF dueProgress = <<>> THEN items
    ELSE LET p == Head(dueProgress)
             pushed == IF p.termId \in terms
                       THEN Append(items, [term |-> p.termId, progress |-> p])
                       ELSE items
         IN  IF Len(pushed) >= limit THEN pushed
             ELSE CollectDue(Tail(dueProgress), pushed, limit)

getDueItems(limit) ==
    CollectDue(SortByNextReview({p \in ProgressRows : p.nextReview <= now}), <<>>, limit)

\* line 24
XpGain_flat(grade) == 10

XpGain(grade) == 10 + grade * 2

\* lines 27-47: the record put for the reviewed item.  Math.floor is applied
\* to nextReview, interval and repetition, which are whole numbers here.
NextProgress_stale(freshProgress, currentProgress, grade) ==
    LET p == currentProgress
        result == calculateNextReview(now, grade, p.repetition, p.efactor, p.interval)
    IN  [termId |-> p.termId, nextReview |-> result.nextReview,
         interval |-> result.interval, repetition |-> result.repetition,
         efactor |-> result.efactor,
         history |-> Append(p.history, [date |-> now, grade |-> grade])]

NextProgress_keepInterval(freshProgress, currentProgress, grade) ==
    LET p == IF freshProgress # Null THEN freshProgress ELSE currentProgress
        result == calculateNextReview(now, grade, p.repetition, p.efactor, p.interval)
    IN  [termId |-> p.termId, nextReview |-> result.nextReview,
         interval |-> p.interval, repetition |-> result.repetition,
         efactor |-> result.efactor,
         history |-> Append(p.history, [date |-> now, grade |-> grade])]

NextProgress_keepRep(freshProgress, currentProgress, grade) ==
    LET p == IF freshProgress # Null THEN freshProgress ELSE currentProgress
        result == calculateNextReview(now, grade, p.repetition, p.efactor, p.interval)
    IN  [termId |-> p.termId, nextReview |-> result.nextReview,
         interval |-> result.interval, repetition |-> p.repetition,
         efactor |-> result.efactor,
         history |-> Append(p.history, [date |-> now, grade |-> grade])]

NextProgress_reset(freshProgress, currentProgress, grade) ==
    LET p == IF freshProgress # Null THEN freshProgress ELSE currentProgress
        result == calculateNextReview(now, grade, p.repetition, p.efactor, p.interval)
    IN  [termId |-> p.termId, nextReview |-> result.nextReview,
         interval |-> result.interval, repetition |-> result.repetition,
         efactor |-> result.efactor,
         history |-> <<[date |-> now, grade |-> grade]>>]

NextProgress(freshProgress, currentProgress, grade) ==
    LET p == IF freshProgress # Null THEN freshProgress ELSE currentProgress
        result == calculateNextReview(now, grade, p.repetition, p.efactor, p.interval)
    IN  [termId |-> p.termId, nextReview |-> result.nextReview,
         interval |-> result.interval, repetition |-> result.repetition,
         efactor |-> result.efactor,
         history |-> Append(p.history, [date |-> now, grade |-> grade])]

\* lines 49-63: the settings row after the XP is added; a missing row is
\* created with an empty apiKey
NextSettings(currentSettings, xpGain) ==
    IF currentSettings # Null
    THEN [currentSettings EXCEPT !.xp = @ + xpGain]
    ELSE [apiKey |-> FALSE, xp |-> xpGain]

\* line 26: writes made inside db.transaction reach the tables at commit
PutInTransaction_direct(table, key, row, committing) == [table EXCEPT ![key] = row]

PutInTransaction(table, key, row, committing) ==
    IF committing THEN [table EXCEPT ![key] = row] ELSE table

\* lines 70-77: the value returned to the caller
SaveResult(grade, currentProgress) ==
    [xpGained |-> XpGain(grade),
     nextReview |-> calculateNextReview(now, grade, currentProgress.repetition,
                        currentProgress.efactor, currentProgress.interval).nextReview]

----------------------------------------------------------------------------
(* useStudySession, src/hooks/mentor/useMentorChatState.ts lines 119-272.   *)
(* An async function runs up to its next await in one step; what it read    *)
(* from the render it was called in (currentItem, aiQuiz, sessionType) is   *)
(* kept in its task.  The text of the answer is not modelled.               *)

Task(op, pc, type, item, quiz, grade) ==
    [op |-> op, pc |-> pc, type |-> type, item |-> item, quiz |-> quiz,
     grade |-> grade, stagedProgress |-> Null]

RemoveAt(seq, i) == SubSeq(seq, 1, i - 1) \o SubSeq(seq, i + 1, Len(seq))

TaskIds == DOMAIN tasks

\* a read-write transaction on progress and settings is open: other
\* requests on these tables wait for it
TxActive == \E i \in TaskIds : tasks[i].pc = "txCommit"

\* a run has at most MaxFaults faults: rejections of awaited calls and
\* calls of submitAnswer made while an earlier one is pending
CanFail == trace.failures + trace.duplicates < MaxFaults

\* what the run has shown so far, updated with every step of the hook
Observed(tr) ==
    [tr EXCEPT
        !.presented = IF mode' = "question" /\ mode # "question"
                      THEN Append(@, currentItem'.term) ELSE @,
        !.cycles = IF mode' = "feedback" /\ mode \in {"question", "evaluating"}
                   THEN @ + 1 ELSE @,
        !.clean = @ /\ mode' # "error"]

\* the page shows one view per mode
ShowsSelection == mode = "selection"
ShowsStudyCard == mode = "question" /\ currentItem # Null
ShowsFeedbackView == mode = "feedback" /\ currentItem # Null
ShowsError == mode = "error"
ShowsChangeMode == mode # "selection"

\* lines 138-140: loadDueItems up to its await
LoadDueItemsSync(type) ==
    /\ mode' = "loading"
    /\ errorMsg' = ""
    /\ tasks' = Append(tasks, Task("loadDueItems", "getDueItems", type, Null, Null, 0))

\* lines 158-165: startItem up to its await
StartItemSync(item) ==
    /\ currentItem' = item
    /\ aiQuiz' = Null
    /\ evaluation' = Null
    /\ mode' = "loading"

\* lines 132-136
startSession(type) ==
    /\ ShowsSelection
    /\ trace.sessions < MaxSessions
    /\ sessionType' = type
    /\ LoadDueItemsSync(type)
    /\ UNCHANGED <<now, srsVars, dbVars, queue, currentItem, aiQuiz, evaluation, xpReward>>
    /\ trace' = Observed([trace EXCEPT
            !.sessions = @ + 1, !.type = type, !.started = <<>>, !.fetched = FALSE, !.presented = <<>>, !.cycles = 0,
            !.clean = \A i \in TaskIds : tasks[i].op \in {"manualGrade"}])

\* line 270
retryLoad_standard ==
    /\ ShowsError
    /\ LoadDueItemsSync("standard")
    /\ UNCHANGED <<now, srsVars, dbVars, sessionType, queue, currentItem, aiQuiz,
                   evaluation, xpReward>>
    /\ trace' = Observed([trace EXCEPT !.clean = FALSE])

retryLoad ==
    /\ ShowsError
    /\ LoadDueItemsSync(sessionType)
    /\ UNCHANGED <<now, srsVars, dbVars, sessionType, queue, currentItem, aiQuiz,
                   evaluation, xpReward>>
    /\ trace' = Observed([trace EXCEPT !.clean = FALSE])

\* lines 250-253
resetToSelection ==
    /\ ShowsChangeMode
    /\ mode' = "selection"
    /\ errorMsg' = ""
    /\ UNCHANGED <<now, srsVars, dbVars, sessionType, queue, currentItem, aiQuiz,
                   evaluation, xpReward, tasks>>
    /\ trace' = Observed([trace EXCEPT !.clean = FALSE])

\* lines 142-149: getDueItems resolved
LoadDueItemsDone(i) ==
    /\ tasks[i].op = "loadDueItems" /\ tasks[i].pc = "getDueItems"
    /\ ~TxActive
    /\ LET items == getDueItems(20) IN
        /\ queue' = items
        /\ IF Len(items) > 0
           THEN /\ StartItemSync(items[1])
                /\ tasks' = Append(RemoveAt(tasks, i),
                       Task("startItem", "settings", tasks[i].type, items[1], Null, 0))
           ELSE /\ mode' = "finished"
                /\ tasks' = RemoveAt(tasks, i)
                /\ UNCHANGED <<currentItem, aiQuiz, evaluation>>
        /\ trace' = Observed([trace EXCEPT
               !.started = [k \in 1..Len(items) |-> items[k].term], !.fetched = TRUE])
    /\ UNCHANGED <<now, srsVars, dbVars, sessionType, errorMsg, xpReward>>

\* lines 150-154: getDueItems rejected
LoadDueItemsFail(i) ==
    /\ tasks[i].op = "loadDueItems" /\ tasks[i].pc = "getDueItems"
    /\ CanFail
    /\ errorMsg' = "Failed to synchronize study queue."
    /\ mode' = "error"
    /\ tasks' = RemoveAt(tasks, i)
    /\ UNCHANGED <<now, srsVars, dbVars, sessionType, queue, currentItem, aiQuiz,
                   evaluation, xpReward>>
    /\ trace' = Observed([trace EXCEPT !.failures = @ + 1])

\* lines 165-179, 196-198: db.settings.get(1) resolved in startItem
StartItemSettings(i) ==
    /\ tasks[i].op = "startItem" /\ tasks[i].pc = "settings"
    /\ ~TxActive
    /\ IF tasks[i].type = "ai"
       THEN IF settings = Null \/ ~settings.apiKey
            THEN /\ errorMsg' = "AI Synchronizer offline: Missing API Key in settings."
                 /\ mode' = "error"
                 /\ tasks' = RemoveAt(tasks, i)
            ELSE /\ tasks' = [tasks EXCEPT ![i].pc = "generateQuiz"]
                 /\ UNCHANGED <<errorMsg, mode>>
       ELSE /\ mode' = "question"
            /\ tasks' = RemoveAt(tasks, i)
            /\ UNCHANGED errorMsg
    /\ UNCHANGED <<now, srsVars, dbVars, sessionType, queue, currentItem, aiQuiz,
                   evaluation, xpReward>>
    /\ trace' = Observed(trace)

\* line 165: db.settings.get(1) rejected in startItem; nothing catches it
StartItemSettingsFail(i) ==
    /\ tasks[i].op = "startItem" /\ tasks[i].pc = "settings"
    /\ CanFail
    /\ tasks' = RemoveAt(tasks, i)
    /\ UNCHANGED <<now, srsVars, dbVars, hookVars>>
    /\ trace' = Observed([trace EXCEPT !.failures = @ + 1, !.unhandled = @ + 1,
                                       !.clean = FALSE])

\* lines 181-190: generateQuiz resolved
GenerateQuizDone(i) ==
    /\ tasks[i].op = "startItem" /\ tasks[i].pc = "generateQuiz"
    /\ aiQuiz' = [term |-> tasks[i].item.term]
    /\ mode' = "question"
    /\ tasks' = RemoveAt(tasks, i)
    /\ UNCHANGED <<now, srsVars, dbVars, sessionType, queue, currentItem, evaluation,
                   errorMsg, xpReward>>
    /\ trace' = Observed(trace)

\* lines 191-195: generateQuiz rejected
GenerateQuizFail(i) ==
    /\ tasks[i].op = "startItem" /\ tasks[i].pc = "generateQuiz"
    /\ CanFail
    /\ errorMsg' = "Neural link failed to generate context."
    /\ mode' = "error"
    /\ tasks' = RemoveAt(tasks, i)
    /\ UNCHANGED <<now, srsVars, dbVars, sessionType, queue, currentItem, aiQuiz,
                   evaluation, xpReward>>
    /\ trace' = Observed([trace EXCEPT !.failures = @ + 1])

\* a call of submitAnswer has not yet left the question
SubmitPending ==
    \E i \in TaskIds : tasks[i].op = "submitAnswer" /\ tasks[i].pc = "settings"

\* lines 201-204: a call of submitAnswer, up to its await
submitAnswer ==
    /\ ShowsStudyCard
    /\ SubmitPending => CanFail
    /\ tasks' = Append(tasks, Task("submitAnswer", "settings", sessionType,
                                   currentItem, aiQuiz, 0))
    /\ UNCHANGED <<now, srsVars, dbVars, hookVars>>
    /\ trace' = Observed([trace EXCEPT
           !.duplicates = IF SubmitPending THEN @ + 1 ELSE @,
           !.clean = @ /\ ~SubmitPending])

\* lines 204-207, 228-230: db.settings.get(1) resolved in submitAnswer
SubmitAnswerSettings(i) ==
    /\ tasks[i].op = "submitAnswer" /\ tasks[i].pc = "settings"
    /\ ~TxActive
    /\ IF tasks[i].quiz # Null /\ settings # Null /\ settings.apiKey
       THEN /\ mode' = "evaluating"
            /\ tasks' = [tasks EXCEPT ![i].pc = "evaluateAnswer"]
       ELSE /\ mode' = "feedback"
            /\ tasks' = RemoveAt(tasks, i)
    /\ UNCHANGED <<now, srsVars, dbVars, sessionType, queue, currentItem, aiQuiz,
                   evaluation, errorMsg, xpReward>>
    /\ trace' = Observed(trace)

\* line 204: db.settings.get(1) rejected in submitAnswer; nothing catches it
SubmitAnswerSettingsFail(i) ==
    /\ tasks[i].op = "submitAnswer" /\ tasks[i].pc = "settings"
    /\ CanFail
    /\ tasks' = RemoveAt(tasks, i)
    /\ UNCHANGED <<now, srsVars, dbVars, hookVars>>
    /\ trace' = Observed([trace EXCEPT !.failures = @ + 1, !.unhandled = @ + 1,
                                       !.clean = FALSE])

\* the grades the oracle's reply may carry: evaluateAnswer of src/lib/ai.ts
\* returns the parsed JSON of the reply as it is (callLLM, JSON.parse), so a
\* number outside 0..5 is among them
AiGrades == {2, 5, 7}

\* lines 209-221: evaluateAnswer resolved; saveSessionProgress is called
EvaluateAnswerDone(i, grade) ==
    /\ tasks[i].op = "submitAnswer" /\ tasks[i].pc = "evaluateAnswer"
    /\ evaluation' = [grade |-> grade]
    /\ mode' = "feedback"
    /\ tasks' = [tasks EXCEPT ![i].pc = "txProgress", ![i].grade = grade]
    /\ UNCHANGED <<now, srsVars, dbVars, sessionType, queue, currentItem, aiQuiz,
                   errorMsg, xpReward>>
    /\ trace' = Observed(trace)

\* lines 223-227: the catch of submitAnswer
SubmitAnswerCatch_error ==
    /\ errorMsg' = "AI Synchronizer offline. Please rate recall manually."
    /\ mode' = "error"

SubmitAnswerCatch ==
    /\ errorMsg' = "AI Synchronizer offline. Please rate recall manually."
    /\ mode' = "feedback"

\* lines 209-217 rejected
EvaluateAnswerFail(i) ==
    /\ tasks[i].op = "submitAnswer" /\ tasks[i].pc = "evaluateAnswer"
    /\ CanFail
    /\ SubmitAnswerCatch
    /\ tasks' = RemoveAt(tasks, i)
    /\ UNCHANGED <<now, srsVars, dbVars, sessionType, queue, currentItem, aiQuiz,
                   evaluation, xpReward>>
    /\ trace' = Observed([trace EXCEPT
           !.failures = @ + 1,
           !.degraded = IF mode = "evaluating" /\ evaluation = Null
                        THEN @ \cup {tasks[i].item.term} ELSE @])

\* study-service.ts lines 26-47: the transaction starts, reads the stored
\* record of the term and puts its successor
TxProgress(i) ==
    /\ tasks[i].pc = "txProgress"
    /\ ~TxActive
    /\ LET row == NextProgress(progress[tasks[i].item.term], tasks[i].item.progress,
                               tasks[i].grade)
       IN  /\ tasks' = [tasks EXCEPT ![i].pc = "txCommit", ![i].stagedProgress = row]
           /\ progress' = PutInTransaction(progress, row.termId, row, FALSE)
    /\ UNCHANGED <<now, srsVars, mentorChatSessions, settings, terms, hookVars>>
    /\ trace' = Observed(trace)

\* study-service.ts lines 49-64: the put has succeeded; the settings row is
\* read, the XP is added to it and the transaction commits
TxCommit(i) ==
    /\ tasks[i].pc = "txCommit"
    /\ progress' = PutInTransaction(progress, tasks[i].stagedProgress.termId,
                                     tasks[i].stagedProgress, TRUE)
    /\ settings' = NextSettings(settings, XpGain(tasks[i].grade))
    /\ tasks' = [tasks EXCEPT ![i].pc = "saveReturn"]
    /\ UNCHANGED <<now, srsVars, mentorChatSessions, terms, hookVars>>
    /\ trace' = Observed([trace EXCEPT !.commits[tasks[i].stagedProgress.termId] = Append(@, tasks[i].grade)])

\* study-service.ts lines 26-64: a request of the transaction fails; the
\* transaction aborts and saveSessionProgress rejects.  submitAnswer catches
\* the rejection (lines 223-227), manualGrade does not (lines 233-237).
TxAbort(i) ==
    /\ tasks[i].pc \in {"txProgress", "txCommit"}
    /\ tasks[i].pc = "txProgress" => ~TxActive
    /\ CanFail
    /\ IF tasks[i].op = "submitAnswer"
       THEN SubmitAnswerCatch
       ELSE UNCHANGED <<errorMsg, mode>>
    /\ tasks' = RemoveAt(tasks, i)
    /\ UNCHANGED <<now, srsVars, dbVars, sessionType, queue, currentItem, aiQuiz,
                   evaluation, xpReward>>
    /\ trace' = Observed([trace EXCEPT
           !.failures = @ + 1,
           !.unhandled = IF tasks[i].op = "submitAnswer" THEN @ ELSE @ + 1,
           !.aborted = @ \cup {tasks[i].pc},
           !.clean = FALSE])

\* study-service.ts lines 70-77 and the setXpReward of lines 222, 236
SaveReturn(i) ==
    /\ tasks[i].pc = "saveReturn"
    /\ xpReward' = SaveResult(tasks[i].grade, tasks[i].item.progress).xpGained
    /\ tasks' = RemoveAt(tasks, i)
    /\ UNCHANGED <<now, srsVars, dbVars, mode, sessionType, queue, currentItem, aiQuiz,
                   evaluation, errorMsg>>
    /\ trace' = Observed([trace EXCEPT !.returned = <<tasks[i].grade>>])

\* lines 239-248, called with the tasks left by the handler that ran before it
handleNext_refetch(pending) ==
    LET nextQueue == SelectSeq(getDueItems(20), LAMBDA it : it.term # currentItem.term) IN
    /\ queue' = nextQueue
    /\ IF Len(nextQueue) > 0
       THEN /\ StartItemSync(nextQueue[1])
            /\ tasks' = Append(pending,
                   Task("startItem", "settings", sessionType, nextQueue[1], Null, 0))
       ELSE /\ mode' = "finished"
            /\ tasks' = pending
            /\ UNCHANGED <<currentItem, aiQuiz, evaluation>>

handleNext_skip(pending) ==
    LET nextQueue == IF Len(queue) < 2 THEN <<>> ELSE Tail(Tail(queue)) IN
    /\ queue' = nextQueue
    /\ IF Len(nextQueue) > 0
       THEN /\ StartItemSync(nextQueue[1])
            /\ tasks' = Append(pending,
                   Task("startItem", "settings", sessionType, nextQueue[1], Null, 0))
       ELSE /\ mode' = "finished"
            /\ tasks' = pending
            /\ UNCHANGED <<currentItem, aiQuiz, evaluation>>

handleNext(pending) ==
    LET nextQueue == IF queue = <<>> THEN <<>> ELSE Tail(queue) IN
    /\ queue' = nextQueue
    /\ IF Len(nextQueue) > 0
       THEN /\ StartItemSync(nextQueue[1])
            /\ tasks' = Append(pending,
                   Task("startItem", "settings", sessionType, nextQueue[1], Null, 0))
       ELSE /\ mode' = "finished"
            /\ tasks' = pending
            /\ UNCHANGED <<currentItem, aiQuiz, evaluation>>

\* FeedbackView.tsx lines 72-77
ManualGrades == {0, 3, 4, 5}

\* FeedbackView.tsx lines 59-79 with useMentorChatState.ts lines 233-235:
\* onManualGrade(grade); onNext()
ManualGradeClick(grade) ==
    /\ ShowsFeedbackView
    /\ evaluation = Null
    /\ handleNext(Append(tasks, Task("manualGrade", "txProgress", sessionType,
                                     currentItem, Null, grade)))
    /\ UNCHANGED <<now, srsVars, dbVars, sessionType, errorMsg, xpReward>>
    /\ trace' = Observed(trace)

\* FeedbackView.tsx lines 19-57: the continue button, onNext()
ContinueClick ==
    /\ ShowsFeedbackView
    /\ evaluation # Null
    /\ handleNext(tasks)
    /\ UNCHANGED <<now, srsVars, dbVars, sessionType, errorMsg, xpReward>>
    /\ trace' = Observed(trace)

\* the clock advances
TickSteps == {2, 24}

\* the calls that read Date.now(): getDueItems (study-service.ts line 7) and
\* the transaction of saveSessionProgress (srs.ts line 113, study-service.ts
\* line 46); the clock is advanced while one of them is due to run
ClockReaderPending ==
    \E i \in TaskIds : tasks[i].pc \in {"getDueItems", "txProgress"}

Tick(d) ==
    /\ trace.ticks < MaxTicks
    /\ ClockReaderPending
    /\ now' = now + d
    /\ trace' = [trace EXCEPT !.ticks = @ + 1]
    /\ UNCHANGED <<srsVars, dbVars, hookVars, tasks>>

----------------------------------------------------------------------------
(* The initial database *)

\* add/page.tsx lines 36-43: the progress row of a term added at hour t
NewProgress(id, t) ==
    [termId |-> id, nextReview |-> t, interval |-> 0, repetition |-> 0,
     efactor |-> DefaultEFactor, history |-> <<>>]

\* the row after a review with the given grade at hour t
Reviewed(p, grade, t) ==
    LET result == calculateNextReview(t, grade, p.repetition, p.efactor, p.interval)
    IN  [termId |-> p.termId, nextReview |-> result.nextReview,
         interval |-> result.interval, repetition |-> result.repetition,
         efactor |-> result.efactor,
         history |-> Append(p.history, [date |-> t, grade |-> grade])]

\* a term added at hour 0 and reviewed with grade 4 at hours 2 and 53
Seasoned(id) == Reviewed(Reviewed(NewProgress(id, 0), 4, 2), 4, 53)

StartTimes == {243}

Init ==
    /\ now \in StartTimes
    /\ mentorChatSessions = <<>>
    /\ srsPrev = Null /\ srsCalls = <<>>
    /\ terms = TermIds
    /\ progress = [t \in TermIds |-> IF t = 1 THEN Seasoned(t) ELSE NewProgress(t, t)]
    /\ settings \in {Null, [apiKey |-> TRUE, xp |-> 0]}
    /\ mode = "selection" /\ sessionType = "standard" /\ queue = <<>>
    /\ currentItem = Null /\ aiQuiz = Null /\ evaluation = Null
    /\ errorMsg = "" /\ xpReward = 0
    /\ tasks = <<>>
    /\ trace = [failures |-> 0, unhandled |-> 0, ticks |-> 0, sessions |-> 0,
                duplicates |-> 0, type |-> "", clean |-> TRUE, started |-> <<>>, fetched |-> FALSE, presented |-> <<>>, cycles |-> 0,
                commits |-> [t \in TermIds |-> <<>>], returned |-> <<>>, degraded |-> {}, aborted |-> {},
                progress0 |-> progress, settings0 |-> settings]

Next ==
    \/ \E type \in {"ai", "standard"} : startSession(type)
    \/ retryLoad
    \/ resetToSelection
    \/ submitAnswer
    \/ \E grade \in ManualGrades : ManualGradeClick(grade)
    \/ ContinueClick
    \/ \E i \in TaskIds : LoadDueItemsDone(i)
    \/ \E i \in TaskIds : LoadDueItemsFail(i)
    \/ \E i \in TaskIds : StartItemSettings(i)
    \/ \E i \in TaskIds : StartItemSettingsFail(i)
    \/ \E i \in TaskIds : GenerateQuizDone(i)
    \/ \E i \in TaskIds : GenerateQuizFail(i)
    \/ \E i \in TaskIds : SubmitAnswerSettings(i)
    \/ \E i \in TaskIds : SubmitAnswerSettingsFail(i)
    \/ \E i \in TaskIds, grade \in AiGrades : EvaluateAnswerDone(i, grade)
    \/ \E i \in TaskIds : EvaluateAnswerFail(i)
    \/ \E i \in TaskIds : TxProgress(i)
    \/ \E i \in TaskIds : TxCommit(i)
    \/ \E i \in TaskIds : TxAbort(i)
    \/ \E i \in TaskIds : SaveReturn(i)
    \/ \E d \in TickSteps : Tick(d)

Spec == Init /\ [][Next]_vars

\* the session when the second term is not yet due at its start: the term
\* was reviewed with grade 3 the day before and is due at 04:00, one hour
\* after the start
InitSnapshot ==
    /\ now \in StartTimes
    /\ mentorChatSessions = <<>>
    /\ srsPrev = Null /\ srsCalls = <<>>
    /\ terms = TermIds
    /\ progress = [t \in TermIds |-> IF t = 1 THEN Seasoned(t)
                                     ELSE Reviewed(NewProgress(t, 0), 3, 220)]
    /\ settings \in {Null, [apiKey |-> TRUE, xp |-> 0]}
    /\ mode = "selection" /\ sessionType = "standard" /\ queue = <<>>
    /\ currentItem = Null /\ aiQuiz = Null /\ evaluation = Null
    /\ errorMsg = "" /\ xpReward = 0
    /\ tasks = <<>>
    /\ trace = [failures |-> 0, unhandled |-> 0, ticks |-> 0, sessions |-> 0,
                duplicates |-> 0, type |-> "", clean |-> TRUE, started |-> <<>>, fetched |-> FALSE,
                presented |-> <<>>, cycles |-> 0,
                commits |-> [t \in TermIds |-> <<>>], returned |-> <<>>,
                degraded |-> {}, aborted |-> {},
                progress0 |-> progress, settings0 |-> settings]

SpecSnapshot == InitSnapshot /\ [][Next]_vars

\* the controller after an 'ai' session was started and left for the
\* selection while the quiz of its first item was being generated:
\* startSession('ai'), the fetch, startItem up to its generateQuiz (lines
\* 157-181) and resetToSelection (lines 250-253), which leaves the request
\* in flight; the other term was reviewed with grade 5 the day before and is
\* not due
InitAbandoned ==
    /\ now \in StartTimes
    /\ mentorChatSessions = <<>>
    /\ srsPrev = Null /\ srsCalls = <<>>
    /\ terms = TermIds
    /\ progress = [t \in TermIds |-> IF t = 1 THEN Seasoned(t)
                                     ELSE Reviewed(NewProgress(t, 0), 5, 220)]
    /\ settings = [apiKey |-> TRUE, xp |-> 0]
    /\ mode = "selection" /\ sessionType = "ai"
    /\ queue = getDueItems(20)
    /\ currentItem = queue[1] /\ aiQuiz = Null /\ evaluation = Null
    /\ errorMsg = "" /\ xpReward = 0
    /\ tasks = <<Task("startItem", "generateQuiz", "ai", queue[1], Null, 0)>>
    /\ trace = [failures |-> 0, unhandled |-> 0, ticks |-> 0, sessions |-> 0,
                duplicates |-> 0, type |-> "ai", clean |-> FALSE,
                started |-> [k \in 1..Len(queue) |-> queue[k].term], fetched |-> TRUE,
                presented |-> <<>>, cycles |-> 0,
                commits |-> [t \in TermIds |-> <<>>], returned |-> <<>>,
                degraded |-> {}, aborted |-> {},
                progress0 |-> progress, settings0 |-> settings]

\* the steps of the controller when no awaited call fails
AbandonedNext ==
    \/ \E type \in {"ai", "standard"} : startSession(type)
    \/ resetToSelection
    \/ submitAnswer
    \/ \E grade \in ManualGrades : ManualGradeClick(grade)
    \/ ContinueClick
    \/ \E i \in TaskIds : LoadDueItemsDone(i)
    \/ \E i \in TaskIds : StartItemSettings(i)
    \/ \E i \in TaskIds : GenerateQuizDone(i)
    \/ \E i \in TaskIds : SubmitAnswerSettings(i)
    \/ \E i \in TaskIds, grade \in AiGrades : EvaluateAnswerDone(i, grade)
    \/ \E i \in TaskIds : TxProgress(i)
    \/ \E i \in TaskIds : TxCommit(i)
    \/ \E i \in TaskIds : SaveReturn(i)

SpecAbandoned == InitAbandoned /\ [][AbandonedNext]_vars

----------------------------------------------------------------------------
(* The database under its writers: the add-term form, the mentor's         *)
(* addTermToDictionary, saveSessionProgress and the reset of all progress,  *)
(* with getDueItems called with any limit.  A call runs as one step.  The   *)
(* deletion of a term and the import of a backup are left out.              *)

\* the content of a term, as a key of db.progress; no content is an id
Contents == {11}

DbKeys == TermIds \cup Contents

\* 10:00 of the day before the clocks go back, and midnight of that day
DbStartTimes == {250, 264}

DbTickSteps == {6, 24}

Limits == 0..MaxLimit

DbInit ==
    /\ now \in DbStartTimes
    /\ mentorChatSessions = <<>>
    /\ srsPrev = Null /\ srsCalls = <<>>
    /\ terms = {}
    /\ progress = [k \in DbKeys |-> Null]
    /\ settings = Null
    /\ mode = "selection" /\ sessionType = "standard" /\ queue = <<>>
    /\ currentItem = Null /\ aiQuiz = Null /\ evaluation = Null
    /\ errorMsg = "" /\ xpReward = 0
    /\ tasks = <<>>
    /\ trace = [ticks |-> 0, resets |-> 0, added |-> <<>>, saved |-> <<>>, limit |-> <<>>, queriedAt |-> 0]

\* src/app/add/page.tsx lines 20-47: handleSubmit, with id a fresh uuid
AddTermForm(id) ==
    /\ id \notin terms
    /\ terms' = terms \cup {id}
    /\ progress' = [progress EXCEPT ![id] = NewProgress(id, now)]
    /\ trace' = [trace EXCEPT !.added = Append(@, [id |-> id, at |-> now])]
    /\ UNCHANGED <<now, srsVars, mentorChatSessions, settings, hookVars, tasks>>

\* src/hooks/useMentorChat.ts lines 309-337: the term is added under a fresh
\* uuid; the progress record is added under the term's content, and the add
\* rejects when that key is taken (the catch of line 332 reports it)
addTermToDictionary(id, content) ==
    /\ id \notin terms
    /\ terms' = terms \cup {id}
    /\ progress' = IF progress[content] = Null
                   THEN [progress EXCEPT ![content] = NewProgress(content, now)]
                   ELSE progress
    /\ trace' = [trace EXCEPT !.added = Append(@, [id |-> id, at |-> now])]
    /\ UNCHANGED <<now, srsVars, mentorChatSessions, settings, hookVars, tasks>>

\* study-service.ts lines 19-78 for an item a session got from getDueItems
DbSaveSessionProgress(termId, grade) ==
    /\ Len(trace.saved) < MaxSaves
    /\ \E k \in DOMAIN getDueItems(20) : getDueItems(20)[k].term = termId
    /\ LET row == NextProgress(progress[termId], progress[termId], grade)
       IN  progress' = PutInTransaction(progress, row.termId, row, TRUE)
    /\ settings' = NextSettings(settings, XpGain(grade))
    /\ trace' = [trace EXCEPT
           !.saved = Append(@, [term |-> termId, at |-> now, grade |-> grade])]
    /\ UNCHANGED <<now, srsVars, mentorChatSessions, terms, hookVars, tasks>>

\* study-service.ts lines 6-17, called with any limit
DbGetDueItems(limit) ==
    /\ queue' = getDueItems(limit)
    /\ trace' = [trace EXCEPT !.limit = <<limit>>, !.queriedAt = now]
    /\ UNCHANGED <<now, srsVars, dbVars, mode, sessionType, currentItem, aiQuiz,
                   evaluation, errorMsg, xpReward, tasks>>

\* the settings page, handleResetAllProgress: db.progress is cleared and
\* gets one new record per stored term
handleResetAllProgress ==
    /\ trace.resets < MaxResets
    /\ progress' = [k \in DbKeys |-> IF k \in terms THEN NewProgress(k, now) ELSE Null]
    /\ trace' = [trace EXCEPT !.resets = @ + 1]
    /\ UNCHANGED <<now, srsVars, mentorChatSessions, settings, terms, hookVars, tasks>>

DbTick(d) ==
    /\ trace.ticks < MaxDbTicks
    /\ now' = now + d
    /\ trace' = [trace EXCEPT !.ticks = @ + 1]
    /\ UNCHANGED <<srsVars, dbVars, hookVars, tasks>>

DbGrades == {0, 3, 5}

DbNext ==
    \/ \E id \in TermIds : AddTermForm(id)
    \/ \E id \in TermIds, content \in Contents : addTermToDictionary(id, content)
    \/ \E termId \in TermIds, grade \in DbGrades : DbSaveSessionProgress(termId, grade)
    \/ \E limit \in Limits : DbGetDueItems(limit)
    \/ handleResetAllProgress
    \/ \E d \in DbTickSteps : DbTick(d)

SpecDb == DbInit /\ [][DbNext]_vars

----------------------------------------------------------------------------
(* saveSessionProgress called by a session for the items of its queue,      *)
(* while the settings page and the dictionary page change the stored        *)
(* records: the copy of the progress record in the queue goes stale.        *)

SaveInit ==
    /\ now \in StartTimes
    /\ mentorChatSessions = <<>>
    /\ srsPrev = Null /\ srsCalls = <<>>
    /\ terms = TermIds
    /\ progress = [k \in DbKeys |-> IF k = 1 THEN Seasoned(k)
                                    ELSE IF k \in TermIds THEN NewProgress(k, k)
                                    ELSE Null]
    /\ settings = Null
    /\ mode = "question" /\ sessionType = "standard"
    /\ queue = getDueItems(20)
    /\ currentItem = Null /\ aiQuiz = Null /\ evaluation = Null
    /\ errorMsg = "" /\ xpReward = 0
    /\ tasks = <<>>
    /\ trace = [ticks |-> 0, resets |-> 0, saves |-> <<>>]

\* study-service.ts lines 19-78, called as the hook calls it (lines 221 and
\* 235 of useMentorChatState.ts) for item k of the queue
SaveQueued(k, grade) ==
    /\ Len(trace.saves) < MaxSaves
    /\ LET item == queue[k]
           freshProgress == progress[item.term]
           row == NextProgress(freshProgress, item.progress, grade)
       IN  /\ progress' = PutInTransaction(progress, row.termId, row, TRUE)
           /\ trace' = [trace EXCEPT !.saves = Append(@,
                  [grade |-> grade, at |-> now, fresh |-> freshProgress,
                   current |-> item.progress, written |-> row,
                   returned |-> SaveResult(grade, item.progress)])]
    /\ settings' = NextSettings(settings, XpGain(grade))
    /\ UNCHANGED <<now, srsVars, mentorChatSessions, terms, hookVars, tasks>>

\* src/app/mentor/page.tsx lines 254-263
handleDelete(id) ==
    /\ id \in terms
    /\ terms' = terms \ {id}
    /\ progress' = [progress EXCEPT ![id] = Null]
    /\ UNCHANGED <<now, srsVars, mentorChatSessions, settings, hookVars, tasks, trace>>

SaveNext ==
    \/ \E k \in DOMAIN queue, grade \in DbGrades : SaveQueued(k, grade)
    \/ \E id \in TermIds : handleDelete(id)
    \/ handleResetAllProgress
    \/ \E d \in DbTickSteps : DbTick(d)

SpecSave == SaveInit /\ [][SaveNext]_vars

----------------------------------------------------------------------------
(* The XP total under its two writers: mentorService.updateQuiz, whose      *)
(* requests run one by one outside any transaction, and                     *)
(* saveSessionProgress, whose transaction runs as one step.  The message    *)
(* that carries the quiz is taken to exist, and the quiz passed in to be    *)
(* completed and evaluated.                                                 *)

MentorSessionIds == {1}

\* part_009 line 68
MentorXpGain(grade) == 15 + grade * 3

\* part_009 lines 82-85
getTotalXp == IF settings = Null THEN 0 ELSE settings.xp

\* a call of updateQuiz with what it has read so far
QuizTask(pc, sessionId, grade) ==
    [op |-> "updateQuiz", pc |-> pc, sessionId |-> sessionId, grade |-> grade,
     xpEarned |-> 0, totalXp |-> 0]

XpInit ==
    /\ now \in StartTimes
    /\ mentorChatSessions = [id \in MentorSessionIds |-> [xpEarned |-> 0]]
    /\ srsPrev = Null /\ srsCalls = <<>>
    /\ terms = TermIds
    /\ progress = [k \in DbKeys |-> IF k = 1 THEN Seasoned(k)
                                    ELSE IF k \in TermIds THEN NewProgress(k, k)
                                    ELSE Null]
    /\ settings \in {Null, [apiKey |-> TRUE, xp |-> 0]}
    /\ mode = "selection" /\ sessionType = "standard" /\ queue = <<>>
    /\ currentItem = Null /\ aiQuiz = Null /\ evaluation = Null
    /\ errorMsg = "" /\ xpReward = 0
    /\ tasks = <<>>
    /\ trace = [saved |-> <<>>, quizzes |-> <<>>]

\* part_009 lines 56-65: the message is read and its quiz updated
updateQuiz(sessionId, grade) ==
    /\ Len(trace.quizzes) < MaxQuizzes
    /\ tasks' = Append(tasks, QuizTask("getSession", sessionId, grade))
    /\ trace' = [trace EXCEPT !.quizzes = Append(@, grade)]
    /\ UNCHANGED <<now, srsVars, dbVars, hookVars>>

\* part_009 line 66: db.mentorChatSessions.get(sessionId)
UpdateQuizGetSession(i) ==
    /\ tasks[i].pc = "getSession"
    /\ tasks' = [tasks EXCEPT ![i].pc = "updateSession",
                              ![i].xpEarned = mentorChatSessions[tasks[i].sessionId].xpEarned]
    /\ UNCHANGED <<now, srsVars, dbVars, hookVars, trace>>

\* part_009 lines 68-71: db.mentorChatSessions.update
UpdateQuizUpdateSession(i) ==
    /\ tasks[i].pc = "updateSession"
    /\ mentorChatSessions' = [mentorChatSessions EXCEPT
           ![tasks[i].sessionId].xpEarned = tasks[i].xpEarned + MentorXpGain(tasks[i].grade)]
    /\ tasks' = [tasks EXCEPT ![i].pc = "getTotalXp"]
    /\ UNCHANGED <<now, srsVars, progress, settings, terms, hookVars, trace>>

\* part_009 line 75: await this.getTotalXp()
UpdateQuizGetTotalXp(i) ==
    /\ tasks[i].pc = "getTotalXp"
    /\ tasks' = [tasks EXCEPT ![i].pc = "updateSettings", ![i].totalXp = getTotalXp]
    /\ UNCHANGED <<now, srsVars, dbVars, hookVars, trace>>

\* part_009 lines 74-76: db.settings.update(1, ...); the update of a row
\* that does not exist changes nothing
UpdateQuizUpdateSettings(i) ==
    /\ tasks[i].pc = "updateSettings"
    /\ settings' = IF settings = Null THEN Null
                   ELSE [settings EXCEPT
                            !.xp = tasks[i].totalXp + MentorXpGain(tasks[i].grade)]
    /\ tasks' = RemoveAt(tasks, i)
    /\ UNCHANGED <<now, srsVars, progress, terms, mentorChatSessions, hookVars, trace>>

XpNext ==
    \/ \E sessionId \in MentorSessionIds, grade \in DbGrades : updateQuiz(sessionId, grade)
    \/ \E i \in TaskIds : UpdateQuizGetSession(i)
    \/ \E i \in TaskIds : UpdateQuizUpdateSession(i)
    \/ \E i \in TaskIds : UpdateQuizGetTotalXp(i)
    \/ \E i \in TaskIds : UpdateQuizUpdateSettings(i)
    \/ \E termId \in TermIds, grade \in DbGrades : DbSaveSessionProgress(termId, grade)

SpecXp == XpInit /\ [][XpNext]_vars

----------------------------------------------------------------------------
(* Scheduler harness: calculateNextReview applied to drawn inputs, and then *)
(* to its own results (a chain of reviews of one item).                     *)

SrsGrades == 0..5
SrsReps == {0, 1, 2, 5}
SrsEFactors == {0, 60, 130, 250}
SrsIntervals == {0, 1, 6, 20}
SrsTimes == {3, 14, 250, 264}

SrsInit ==
    /\ now \in SrsTimes
    /\ mentorChatSessions = <<>>
    /\ srsPrev \in [repetition : SrsReps, efactor : SrsEFactors, interval : SrsIntervals]
    /\ srsCalls = <<>>
    /\ progress = Null /\ settings = Null /\ terms = {}
    /\ mode = "selection" /\ sessionType = "standard" /\ queue = <<>>
    /\ currentItem = Null /\ aiQuiz = Null /\ evaluation = Null
    /\ errorMsg = "" /\ xpReward = 0
    /\ tasks = <<>> /\ trace = Null

SrsReview(grade) ==
    /\ Len(srsCalls) < MaxChain
    /\ LET r == calculateNextReview(now, grade, srsPrev.repetition,
                                    srsPrev.efactor, srsPrev.interval)
       IN  /\ srsCalls' = Append(srsCalls, [grade |-> grade, prev |-> srsPrev,
                                            at |-> now, result |-> r])
           /\ srsPrev' = [repetition |-> r.repetition, efactor |-> r.efactor,
                          interval |-> r.interval]
    /\ UNCHANGED <<now, dbVars, hookVars, tasks, trace>>

SrsNext == \E grade \in SrsGrades : SrsReview(grade)

SpecSrs == SrsInit /\ [][SrsNext]_vars

----------------------------------------------------------------------------
(* Properties of the scheduler, checked under SpecSrs *)

SrsCallIds == 1..Len(srsCalls)

Max(a, b) == IF a >= b THEN a ELSE b

\* the integer nearest to hundredths / 100, halves up, stated without MathRound
Nearest(hundredths) ==
    CHOOSE k \in 0..(hundredths \div 100 + 1) :
        100 * k - 50 <= hundredths /\ hundredths < 100 * k + 50

\* C1: every call with a grade below 3 returns repetition 0 and interval 1,
\* whatever the previous repetition, easiness factor and interval.
C1_FailureResets ==
    \A i \in SrsCallIds :
        srsCalls[i].grade < 3 =>
            /\ srsCalls[i].result.repetition = 0
            /\ srsCalls[i].result.interval = 1

C1_Witness ==
    \E i \in SrsCallIds :
        /\ srsCalls[i].grade < 3
        /\ srsCalls[i].prev.repetition = 5
        /\ srsCalls[i].prev.interval = 20
        /\ srsCalls[i].result.repetition = 0
        /\ srsCalls[i].result.interval = 1

C3_Original ==
    \A i \in SrsCallIds :
        LET c == srsCalls[i] IN
        (c.grade >= 3 /\ c.prev.repetition >= 2) =>
            /\ c.result.interval = Nearest(c.prev.interval * c.prev.efactor)
            /\ c.result.repetition = c.prev.repetition + 1

\* C3 as amended: the interval is round(previousInterval * e) raised to at
\* least 1, where e is the easiness factor passed in, or 2.5 when 0 was
\* passed in; the repetition is previous + 1.
C3_SeasonedInterval ==
    \A i \in SrsCallIds :
        LET c == srsCalls[i]
            e == IF c.prev.efactor = 0 THEN 250 ELSE c.prev.efactor
        IN  (c.grade >= 3 /\ c.prev.repetition >= 2) =>
                /\ c.result.interval = Max(1, Nearest(c.prev.interval * e))
                /\ c.result.repetition = c.prev.repetition + 1

C3_Witness ==
    \E i \in SrsCallIds :
        /\ srsCalls[i].grade = 5 /\ srsCalls[i].prev.repetition = 5
        /\ srsCalls[i].prev.efactor = 250 /\ srsCalls[i].prev.interval = 20
        /\ srsCalls[i].result.interval = 50 /\ srsCalls[i].result.repetition = 6

\* the easiness update of the claim, in hundredths
ClaimedEFactor(grade, efactor) ==
    Max(130, efactor + 10 - (5 - grade) * (8 + (5 - grade) * 2))

\* C4 as stated: for every grade in 0..5 and every previous easiness factor
\* the result's efactor is max(1.3, previous + 0.1 - (5-g)*(0.08+(5-g)*0.02)).
C4_Original ==
    \A i \in SrsCallIds :
        LET c == srsCalls[i] IN
        c.grade \in 0..5 => c.result.efactor = ClaimedEFactor(c.grade, c.prev.efactor)

\* C4 as amended: the formula holds for every previous easiness factor other
\* than 0 (values below 1.3 included); a previous easiness factor of 0 is
\* replaced by 2.5 before the update; and a chain of grade-0 calls that
\* starts from efactor 1.3 leaves the efactor at exactly 1.3 after each call.
C4_EFactorUpdate ==
    /\ \A i \in SrsCallIds :
            LET c == srsCalls[i]
                e == IF c.prev.efactor = 0 THEN 250 ELSE c.prev.efactor
            IN  c.grade \in 0..5 => c.result.efactor = ClaimedEFactor(c.grade, e)
    /\ (/\ srsCalls # <<>>
        /\ srsCalls[1].prev.efactor = 130
        /\ \A i \in SrsCallIds : srsCalls[i].grade = 0)
            => \A i \in SrsCallIds : srsCalls[i].result.efactor = 130

C4_Witness ==
    /\ Len(srsCalls) >= 3
    /\ srsCalls[1].prev.efactor = 130
    /\ \A i \in SrsCallIds : srsCalls[i].grade = 0
    /\ srsCalls[Len(srsCalls)].result.efactor = 130

\* C5: for grade in 0..5, previous repetition >= 0 and previous interval >= 0
\* the result has interval >= 1 and repetition >= 0.
C5_IntervalAtLeastOne ==
    \A i \in SrsCallIds :
        LET c == srsCalls[i] IN
        (c.grade \in 0..5 /\ c.prev.repetition >= 0 /\ c.prev.interval >= 0) =>
            (c.result.interval >= 1 /\ c.result.repetition >= 0)

C5_Witness ==
    \E i \in SrsCallIds :
        /\ srsCalls[i].grade >= 3
        /\ srsCalls[i].prev.repetition >= 2
        /\ srsCalls[i].prev.interval = 0
        /\ srsCalls[i].result.interval = 1

\* the local day an instant lies on and what the local clock shows then,
\* found by search in the calendar
DayOf(t) == CHOOSE d \in 0..(t \div DayLen) : DayStart(d) <= t /\ t < DayStart(d + 1)

ClockHour(t) ==
    LET sinceMidnight == t - DayStart(DayOf(t))
    IN  IF DayOf(t) = FallBackDay /\ sinceMidnight >= 2
        THEN sinceMidnight - 1 ELSE sinceMidnight

\* C15: the nextReview of every call is an instant at which the local clock
\* shows 04:00, on the local day on which the instant of the call plus
\* interval periods of 24 hours lies.
C15_DueTimeNormalized ==
    \A i \in SrsCallIds :
        LET c == srsCalls[i] IN
        /\ ClockHour(c.result.nextReview) = 4
        /\ DayOf(c.result.nextReview) = DayOf(c.at + c.result.interval * 24)

C15_Witness ==
    \E i \in SrsCallIds :
        /\ srsCalls[i].at = 250
        /\ srsCalls[i].result.interval = 1
        /\ srsCalls[i].result.nextReview = 269
        /\ DayOf(269) = FallBackDay

\* C17: in a chain of calls, each fed the result of the one before, that
\* starts from an easiness factor >= 1.3 and has only grades 3, 4 and 5,
\* every call made with previous repetition >= 2 returns an interval that is
\* at least the interval passed in.
C17_IntervalMonotone ==
    (/\ srsCalls # <<>>
     /\ srsCalls[1].prev.efactor >= 130
     /\ \A i \in SrsCallIds : srsCalls[i].grade \in {3, 4, 5}
     /\ \A i \in 2..Len(srsCalls) :
            /\ srsCalls[i].prev.repetition = srsCalls[i - 1].result.repetition
            /\ srsCalls[i].prev.efactor = srsCalls[i - 1].result.efactor
            /\ srsCalls[i].prev.interval = srsCalls[i - 1].result.interval)
        => \A i \in SrsCallIds :
               srsCalls[i].prev.repetition >= 2 =>
                   srsCalls[i].result.interval >= srsCalls[i].prev.interval

C17_Witness ==
    /\ Len(srsCalls) = 3
    /\ \A i \in SrsCallIds : srsCalls[i].grade = 3
    /\ srsCalls[1].prev.efactor = 130 /\ srsCalls[1].prev.repetition = 1
    /\ srsCalls[1].result.interval = 4
    /\ srsCalls[2].prev.repetition = 2 /\ srsCalls[2].result.interval = 5
    /\ srsCalls[3].prev.repetition = 3 /\ srsCalls[3].result.interval = 7

----------------------------------------------------------------------------
(* Properties of the session and of its persistence step, checked under Spec *)

\* no awaited call has failed, submitAnswer was called once per question, and
\* the session was neither retried nor left for the selection
OrderlySession == trace.clean /\ trace.failures = 0 /\ trace.fetched

IsPrefix(a, b) == Len(a) <= Len(b) /\ SubSeq(b, 1, Len(a)) = a

\* C6: an orderly session started with N due items presents the queued items
\* in order, each once, goes through one question-to-feedback cycle per item,
\* and is finished exactly after N cycles with the queue empty.
C6_QueueExhaustion ==
    OrderlySession =>
        /\ IsPrefix(trace.presented, trace.started)
        /\ trace.cycles <= Len(trace.presented)
        /\ mode = "finished" =>
              /\ queue = <<>>
              /\ trace.cycles = Len(trace.started)
              /\ trace.presented = trace.started

C6_Witness ==
    /\ OrderlySession
    /\ mode = "finished"
    /\ queue = <<>>
    /\ Len(trace.started) = 2
    /\ trace.cycles = 2
    /\ trace.presented = trace.started

\* C7: the stored history of an item is the history it had at the start,
\* unchanged, followed by one entry per completed review of the item, in the
\* order of the reviews and with their grades; the dates never decrease.
C7_HistoryAppendOnly ==
    \A t \in TermIds :
        LET h  == progress[t].history
            h0 == trace.progress0[t].history
        IN  /\ Len(h) = Len(h0) + Len(trace.commits[t])
            /\ SubSeq(h, 1, Len(h0)) = h0
            /\ \A k \in 1..Len(trace.commits[t]) :
                   h[Len(h0) + k].grade = trace.commits[t][k]
            /\ \A k \in 1..(Len(h) - 1) : h[k].date <= h[k + 1].date

C7_Witness ==
    \E t \in TermIds :
        /\ Len(trace.progress0[t].history) = 2
        /\ Len(trace.commits[t]) = 2
        /\ Len(progress[t].history) = 4
        /\ progress[t].history[3].date < progress[t].history[4].date

XpOf(row) == IF row = Null THEN 0 ELSE row.xp

\* C8: the progress table and the XP of the settings row change only
\* together, in one step that appends one history entry of some grade g to
\* one item and adds 10 + 2g to the XP; every other step, a failing request
\* of the transaction included, leaves both exactly as they were.
C8_AllOrNothing ==
    [][ (progress' # progress \/ settings' # settings) =>
            \E t \in TermIds :
                LET h  == progress[t].history
                    h1 == progress'[t].history
                IN  /\ \A u \in TermIds \ {t} : progress'[u] = progress[u]
                    /\ Len(h1) = Len(h) + 1
                    /\ SubSeq(h1, 1, Len(h)) = h
                    /\ XpOf(settings') = XpOf(settings) + 10 + 2 * h1[Len(h1)].grade
      ]_vars

C8_Witness ==
    /\ "txCommit" \in trace.aborted
    /\ progress = trace.progress0
    /\ settings = trace.settings0

RECURSIVE SumAwards(_)
SumAwards(grades) ==
    IF grades = <<>> THEN 0 ELSE 10 + 2 * Head(grades) + SumAwards(Tail(grades))

RECURSIVE SumOver(_, _)
SumOver(f, keys) ==
    IF keys = {} THEN 0
    ELSE LET k == CHOOSE x \in keys : TRUE
         IN  SumAwards(f[k]) + SumOver(f, keys \ {k})

\* C9: the XP of the settings row is its initial value plus 10 + 2g for every
\* persisted review of grade g, failing grades included; a missing row exists
\* from the first persisted review on; and the amount reported to the hook is
\* 10 + 2g for the grade of the review that returned.
C9_XpAward ==
    /\ XpOf(settings) = XpOf(trace.settings0) + SumOver(trace.commits, TermIds)
    /\ (settings = Null) <=>
           (trace.settings0 = Null /\ \A t \in TermIds : trace.commits[t] = <<>>)
    /\ trace.returned # <<>> => xpReward = 10 + 2 * trace.returned[1]

C9_Witness ==
    /\ trace.settings0 = Null
    /\ settings # Null
    /\ settings.xp = 10
    /\ \E t \in TermIds : trace.commits[t] = <<0>>
    /\ trace.returned = <<0>>
    /\ xpReward = 10

\* C10: when the grading oracle fails while the mode is evaluating and no
\* evaluation is shown, the mode becomes feedback, still without an
\* evaluation (the view with the manual grade buttons), and not error; the
\* step writes no progress and no XP; and a manual grade given in that view
\* starts the persistence of the item with that grade and moves the session
\* to the next item, or finishes it when none is left.
C10_DegradeNotCrash ==
    [][ /\ ((\E i \in TaskIds : EvaluateAnswerFail(i))
               /\ mode = "evaluating" /\ evaluation = Null)
            => /\ mode' = "feedback"
               /\ evaluation' = Null
               /\ currentItem' # Null
               /\ progress' = progress /\ settings' = settings
        /\ (\E g \in ManualGrades : ManualGradeClick(g))
            => /\ \E i \in DOMAIN tasks' :
                      /\ tasks'[i].op = "manualGrade" /\ tasks'[i].pc = "txProgress"
                      /\ tasks'[i].item = currentItem
                      /\ tasks'[i].grade \in ManualGrades
               /\ IF Len(queue) > 1
                  THEN mode' = "loading" /\ currentItem' = queue[2]
                  ELSE mode' = "finished"
      ]_vars

C10_Witness ==
    \E t \in trace.degraded :
        /\ Len(trace.commits[t]) = 1
        /\ trace.commits[t][1] \in ManualGrades
        /\ mode = "question"
        /\ currentItem.term # t
        /\ trace.unhandled = 0

\* C11: when generateQuiz rejects in an 'ai' session, the item is shown as a
\* plain flashcard: the mode becomes question with no quiz, and not error.
C11_QuizFailureFallsBack ==
    [][ (\E i \in TaskIds : GenerateQuizFail(i)) =>
            (mode' = "question" /\ aiQuiz' = Null /\ currentItem' = currentItem)
      ]_vars

\* C12: when the fetch of the due items made at the start of a session
\* rejects, the mode becomes error with a message and the step presents no
\* item and leaves the queue and the current item as they were;
\* a retry from the error view sets the mode to loading and starts one more
\* fetch, carrying the type the session was started with.
C12_FetchFailureAndRetry ==
    [][ /\ ((\E i \in TaskIds : LoadDueItemsFail(i)) /\ ~trace.fetched)
            => /\ mode' = "error"
               /\ errorMsg' # ""
               /\ trace'.presented = trace.presented
               /\ queue' = queue /\ currentItem' = currentItem
        /\ retryLoad
            => /\ mode' = "loading"
               /\ Len(tasks') = Len(tasks) + 1
               /\ LET fetch == tasks'[Len(tasks')]
                  IN  /\ fetch.op = "loadDueItems" /\ fetch.pc = "getDueItems"
                      /\ fetch.type = trace.type
               /\ sessionType' = trace.type
      ]_vars

C12_Witness ==
    /\ trace.type = "ai"
    /\ trace.failures = 1
    /\ ~trace.fetched
    /\ mode = "loading"
    /\ \E i \in TaskIds : tasks[i].op = "loadDueItems" /\ tasks[i].type = "ai"

\* C13: the fetch of a session stores the due items in ascending order of
\* their nextReview; from then on, as long as the session is neither retried
\* nor left, the queue stays as it is or loses its front element, also when
\* another item becomes due; and the item presented is the front of the queue.
C13_QueueIsSnapshot ==
    [][ /\ (\E i \in TaskIds : LoadDueItemsDone(i))
            => /\ \A k \in 1..Len(queue') : queue'[k].progress.nextReview <= now
               /\ \A k \in 1..(Len(queue') - 1) :
                      queue'[k].progress.nextReview <= queue'[k + 1].progress.nextReview
        /\ (trace.fetched /\ trace'.clean)
            => (queue' = queue \/ (queue # <<>> /\ queue' = Tail(queue)))
        /\ (trace'.clean /\ mode' = "question" /\ mode # "question")
            => (queue' # <<>> /\ currentItem' = queue'[1])
      ]_vars

C13_Witness ==
    /\ trace.clean
    /\ trace.started = <<1>>
    /\ trace.presented = <<1>>
    /\ mode = "finished"
    /\ progress[2].nextReview <= now
    /\ progress[2] = trace.progress0[2]
    /\ 2 \in terms

\* C18: a stored progress record whose latest history entry has a grade
\* below 3 has repetition 0.
C18_FailedMeansRepetitionZero ==
    \A t \in TermIds :
        LET p == progress[t] IN
        (p.history # <<>> /\ p.history[Len(p.history)].grade < 3) => p.repetition = 0

C18_Witness ==
    \E t \in TermIds :
        LET p == progress[t] IN
        /\ trace.progress0[t].repetition = 2
        /\ Len(p.history) = Len(trace.progress0[t].history) + 1
        /\ p.history[Len(p.history)].grade < 3
        /\ p.repetition = 0

\* the edges the mode may follow
ModeEdges ==
    { <<"selection", "loading">>, <<"loading", "question">>, <<"loading", "finished">>,
      <<"loading", "error">>, <<"question", "evaluating">>, <<"question", "feedback">>,
      <<"question", "error">>, <<"evaluating", "feedback">>, <<"evaluating", "error">>,
      <<"feedback", "loading">>, <<"feedback", "finished">>, <<"finished", "selection">>,
      <<"error", "loading">>, <<"error", "selection">> }

\* C22: every change of the mode follows one of the edges of ModeEdges or is
\* the user's change of mode, which leads to selection.
C22_ModeEdges ==
    [][ mode' # mode => (<<mode, mode'>> \in ModeEdges \/ resetToSelection) ]_vars

\* C23: of the calls of submitAnswer made for one item at most one gets
\* past its first await, so that at most one grading request is made for
\* the item; and, when no awaited call fails, at most one review of the item
\* is persisted.
C23_DoubleSubmitInert ==
    /\ \A i \in TaskIds, j \in TaskIds :
           (/\ i # j
            /\ tasks[i].op = "submitAnswer" /\ tasks[j].op = "submitAnswer"
            /\ tasks[i].item.term = tasks[j].item.term)
               => (tasks[i].pc = "settings" \/ tasks[j].pc = "settings")
    /\ trace.failures = 0 => \A t \in TermIds : Len(trace.commits[t]) <= 1

\* C24: no call of the hook ends in a rejection that nothing catches, and
\* the mode is loading or evaluating only while a call that will set the
\* mode is in flight.
C24_NoUncaughtRejection ==
    /\ trace.unhandled = 0
    /\ mode \in {"loading", "evaluating"} =>
           \E i \in TaskIds : tasks[i].op \in {"loadDueItems", "startItem", "submitAnswer"}

----------------------------------------------------------------------------
(* Properties of the database, checked under SpecDb *)

\* C14: the result of getDueItems(limit), limit >= 0, holds only items whose
\* stored nextReview was <= the time of the call, in ascending order of
\* nextReview, and never more than limit items.
C14_DueItemsCapped ==
    trace.limit # <<>> =>
        /\ \A k \in 1..Len(queue) : queue[k].progress.nextReview <= trace.queriedAt
        /\ \A k \in 1..(Len(queue) - 1) :
               queue[k].progress.nextReview <= queue[k + 1].progress.nextReview
        /\ Len(queue) <= trace.limit[1]

\* the terms getDueItems would return now
DueTermsNow == {getDueItems(20)[k].term : k \in DOMAIN getDueItems(20)}

\* C16: after the latest persisted review of an item, made at instant t, the
\* stored nextReview is later than t and on a later local day than t, and
\* getDueItems does not return the item while the local day of t lasts.
C16_NotDueSameDay ==
    \A i \in 1..Len(trace.saved) :
        LET s == trace.saved[i] IN
        (\A j \in (i + 1)..Len(trace.saved) : trace.saved[j].term # s.term) =>
            /\ progress[s.term].nextReview > s.at
            /\ DayOf(progress[s.term].nextReview) > DayOf(s.at)
            /\ DayOf(now) = DayOf(s.at) => s.term \notin DueTermsNow

\* C19 as stated: every stored progress record has interval >= 1, from the
\* moment its term is added.
C19_Original ==
    \A k \in DbKeys : progress[k] # Null => progress[k].interval >= 1

\* C19 as amended: a stored progress record that has been reviewed has
\* interval >= 1; a record not yet reviewed has the interval 0 it was
\* created with.
C19_IntervalOnceReviewed ==
    \A k \in DbKeys :
        progress[k] # Null =>
            IF progress[k].history = <<>>
            THEN progress[k].interval = 0
            ELSE progress[k].interval >= 1

C19_Witness ==
    \E k \in DbKeys, j \in DbKeys :
        /\ progress[k] # Null /\ progress[j] # Null
        /\ Len(progress[k].history) = 1 /\ progress[k].interval = 1
        /\ progress[j].history = <<>> /\ progress[j].interval = 0

\* C20: a step that adds a term adds, with it, the progress record keyed by
\* the term's id, with interval 0, repetition 0, easiness factor 2.5, no
\* history and nextReview at the instant of the add, and no other record;
\* after the step getDueItems returns the term.
C20_AddCreatesProgress ==
    [][ \A id \in TermIds :
            (id \notin terms /\ id \in terms') =>
                /\ progress'[id] = [termId |-> id, nextReview |-> now, interval |-> 0,
                                    repetition |-> 0, efactor |-> 250, history |-> <<>>]
                /\ \A k \in DbKeys \ {id} : progress'[k] = progress[k]
                /\ id \in DueTermsNow'
      ]_vars

----------------------------------------------------------------------------
(* Properties of saveSessionProgress with stale copies, checked under SpecSave *)

\* the record the scheduler's rules give for a review of grade g at instant
\* t of an item whose record is base, stated without the model's operators
ReviewOf(base, g, t, written) ==
    /\ written.termId = base.termId
    /\ written.history = Append(base.history, [date |-> t, grade |-> g])
    /\ written.repetition = (IF g >= 3 THEN base.repetition + 1 ELSE 0)
    /\ written.efactor = ClaimedEFactor(g, base.efactor)
    /\ written.interval =
         (IF g < 3 THEN 1
          ELSE IF base.repetition = 0 THEN (IF g = 5 THEN 4 ELSE IF g = 4 THEN 2 ELSE 1)
          ELSE IF base.repetition = 1 THEN (IF g = 5 THEN 10 ELSE IF g = 4 THEN 6 ELSE 4)
          ELSE Max(1, Nearest(base.interval * base.efactor)))

\* C25: the record written by saveSessionProgress is the review of the
\* record stored at that moment; the copy passed in by the caller is the
\* base only when no record is stored.
C25_WrittenFromStored ==
    \A i \in 1..Len(trace.saves) :
        LET s == trace.saves[i] IN
        IF s.fresh # Null
        THEN ReviewOf(s.fresh, s.grade, s.at, s.written)
        ELSE ReviewOf(s.current, s.grade, s.at, s.written)

C25_Witness ==
    \E i \in 1..Len(trace.saves), j \in 1..Len(trace.saves) :
        /\ trace.saves[i].fresh # Null
        /\ trace.saves[i].fresh.repetition # trace.saves[i].current.repetition
        /\ trace.saves[j].fresh = Null

\* C30: the nextReview that saveSessionProgress returns is the nextReview of
\* the record it wrote, also when the stored record differs from the copy
\* passed in.
C30_ReturnedIsPersisted ==
    \A i \in 1..Len(trace.saves) :
        trace.saves[i].returned.nextReview = trace.saves[i].written.nextReview

----------------------------------------------------------------------------
(* Properties of the session controller, continued (under Spec) *)

\* C26: when the AI grading has succeeded and the feedback is shown, the
\* item's progress write and XP update have completed: no saveSessionProgress
\* of the shown item is still to run, to commit or to return, so the user
\* cannot continue while it is pending.
C26_WriteBeforeFeedback ==
    (ShowsFeedbackView /\ evaluation # Null) =>
        ~\E i \in TaskIds :
            /\ tasks[i].op = "submitAnswer"
            /\ tasks[i].item.term = currentItem.term
            /\ tasks[i].pc \in {"txProgress", "txCommit", "saveReturn"}

\* C27: a quiz is present only if the running session is of type 'ai' and
\* the quiz was generated for the current item; a quiz-generation request of
\* an abandoned session does not put a quiz into a later 'standard' session.
C27_QuizOnlyInAiSession ==
    aiQuiz # Null =>
        /\ sessionType = "ai"
        /\ currentItem # Null
        /\ aiQuiz.term = currentItem.term

\* C28: every grade passed to saveSessionProgress, and so every grade in a
\* history, is an integer in 0..5; manual grades are among 0, 3, 4 and 5.
C28_GradesInRange ==
    /\ \A i \in TaskIds :
           tasks[i].pc \in {"txProgress", "txCommit"} =>
               /\ tasks[i].grade \in 0..5
               /\ tasks[i].op = "manualGrade" => tasks[i].grade \in {0, 3, 4, 5}
    /\ \A t \in TermIds : \A k \in 1..Len(progress[t].history) :
           progress[t].history[k].grade \in 0..5

----------------------------------------------------------------------------
(* Properties of the XP total (under SpecXp) *)

RECURSIVE SumMentorAwards(_)
SumMentorAwards(grades) ==
    IF grades = <<>> THEN 0 ELSE 15 + 3 * Head(grades) + SumMentorAwards(Tail(grades))

\* C29: once the calls made have finished, the XP of the settings record is
\* the sum of the awards made, 10 + 2g for every persisted review and
\* 15 + 3g for every completed mentor quiz, and the session's xpEarned is the
\* sum of its quiz awards, however the calls were interleaved.
C29_XpIsSumOfAwards ==
    tasks = <<>> =>
        /\ XpOf(settings) =
               SumAwards([k \in 1..Len(trace.saved) |-> trace.saved[k].grade])
               + SumMentorAwards(trace.quizzes)
        /\ \A id \in MentorSessionIds :
               mentorChatSessions[id].xpEarned = SumMentorAwards(trace.quizzes)

====
